---- MODULE Spec2Model ----
(***************************************************************************)
(* A model of dashboard.py: the Streamlit stock dashboard that holds a     *)
(* fetched OHLCV frame in the session, draws a candlestick chart with the  *)
(* selected technical indicators and, on demand, exports the chart to a    *)
(* temporary PNG and sends it with a text report to a vision model.        *)
(*                                                                         *)
(* Dates are the row positions 1..n of the frame (a strictly increasing    *)
(* index).  Prices and volumes are integers and derived values are exact   *)
(* rationals; the IEEE special values of the pandas computations (NaN and  *)
(* the infinities) are kept, because the indicators' edge cases run        *)
(* through them.  Binary rounding of finite values is not modelled.        *)
(***************************************************************************)
EXTENDS Integers, Sequences, FiniteSets, TLC

VARIABLES
    stock_data,    \* st.session_state: <<frame>> once "stock_data" is set, <<>> before
    indicators,    \* the multiselect's value: the selected names, in selection order
    fig,           \* the figure of the last script run: its traces, in order
    chart,         \* "none" | "shown" | "fault": how the last run's rendering ended
    pc,            \* position inside the 'Run AI Analysis' block
    tmpfiles,      \* the temporary files that exist on disk
    tmpfile_path,  \* the file the last run's analysis created (0: none)
    tech_data,     \* the technical-data text assembled by the current analysis
    messages,      \* the prompt built by the current analysis
    outcome        \* how the last run's analysis ended: "none" | "running" | "ok" | "fault"

vars == <<stock_data, indicators, fig, chart, pc, tmpfiles,
          tmpfile_path, tech_data, messages, outcome>>

----------------------------------------------------------------------------
(* Bounds of the model *)

\* the longest fetched series
MaxLen == 24
\* the most indicators selected at once
MaxSel == 2
\* the most temporary files the disk holds at once
MaxTmp == 2

----------------------------------------------------------------------------
(* Program constants *)

\* calculate_rsi(data, window=14)
RSI_WINDOW == 14
\* rolling(window=20) of the SMA and the Bollinger bands
SMA_WINDOW == 20
\* tail(10) of the report
TAIL == 10

IndicatorNames ==
    {"20-Day SMA", "20-Day EMA", "20-Day Bollinger Bands", "VWAP", "MACD", "RSI"}

DefaultIndicators == <<"20-Day SMA">>

----------------------------------------------------------------------------
(* float64 values: NaN, the infinities, exact rationals n/d with d > 0, and  *)
(* finite values whose magnitude the model does not track (the exponential  *)
(* means and the standard deviation).                                       *)

NaN == [k |-> "nan"]
Inf(s) == [k |-> "inf", s |-> s]
Num(n, d) == [k |-> "num", n |-> n, d |-> d]
Finite == [k |-> "float"]

IsNaN(a) == a.k = "nan"
IsNum(a) == a.k = "num"
Sign(n) == IF n < 0 THEN -1 ELSE 1

FNeg(a) ==
    CASE a.k = "num" -> Num(-a.n, a.d)
      [] a.k = "inf" -> Inf(-a.s)
      [] OTHER -> a

FAdd(a, b) ==
    CASE a.k = "nan" \/ b.k = "nan" -> NaN
      [] a.k = "inf" /\ b.k = "inf" -> IF a.s = b.s THEN a ELSE NaN
      [] a.k = "inf" -> a
      [] b.k = "inf" -> b
      [] a.k = "float" \/ b.k = "float" -> Finite
      [] OTHER -> Num(a.n * b.d + b.n * a.d, a.d * b.d)

FSub(a, b) == FAdd(a, FNeg(b))

\* a division that yields NaN for every zero divisor
FDiv_zero_is_nan(a, b) ==
    CASE a.k = "nan" \/ b.k = "nan" -> NaN
      [] a.k = "inf" /\ b.k = "inf" -> NaN
      [] a.k = "inf" -> IF b.k = "num" THEN Inf(a.s * Sign(b.n)) ELSE a
      [] b.k = "inf" -> Num(0, 1)
      [] a.k = "float" \/ b.k = "float" -> Finite
      [] b.n = 0 -> NaN
      [] OTHER -> Num(a.n * b.d * Sign(b.n), a.d * b.n * Sign(b.n))

\* IEEE division: x/0 is an infinity for x # 0 and NaN for x = 0 (zeros
\* carry no sign here: the sign of a zero divisor only picks the sign of the
\* infinity)
FDiv(a, b) ==
    CASE a.k = "nan" \/ b.k = "nan" -> NaN
      [] a.k = "inf" /\ b.k = "inf" -> NaN
      [] a.k = "inf" -> IF b.k = "num" THEN Inf(a.s * Sign(b.n)) ELSE a
      [] b.k = "inf" -> Num(0, 1)
      [] a.k = "float" \/ b.k = "float" -> Finite
      [] b.n = 0 -> IF a.n = 0 THEN NaN ELSE Inf(Sign(a.n))
      [] OTHER -> Num(a.n * b.d * Sign(b.n), a.d * b.n * Sign(b.n))

\* comparisons with NaN are False
FGt0(a) == (a.k = "num" /\ a.n > 0) \/ (a.k = "inf" /\ a.s > 0)
FLt0(a) == (a.k = "num" /\ a.n < 0) \/ (a.k = "inf" /\ a.s < 0)

\* equality, <= of two rationals
FEq(a, b) == IsNum(a) /\ IsNum(b) /\ a.n * b.d = b.n * a.d
FLe(a, b) == IsNum(a) /\ IsNum(b) /\ a.n * b.d <= b.n * a.d


FMul(a, b) ==
    CASE a.k = "nan" \/ b.k = "nan" -> NaN
      [] a.k = "float" \/ b.k = "float" -> Finite
      [] a.k = "num" /\ b.k = "num" -> Num(a.n * b.n, a.d * b.d)
      [] OTHER -> NaN

----------------------------------------------------------------------------
(* The frames yf.download can return: a frame is a function from column     *)
(* names to columns of equal length, row p holding the values of date p.   *)

Min(a, b) == IF a < b THEN a ELSE b
Max(a, b) == IF a > b THEN a ELSE b

\* Close of row i (0-based): slope s1 up to row 5, slope s2 after it, plus a
\* zigzag of amplitude z
ClosePrice(i, s1, s2, z) == 100 + s1 * Min(i, 5) + s2 * Max(0, i - 5) + z * (i % 2)

\* Volume of row i (0-based): no trade in the first `lead` rows
TradeVolume(i, lead) == IF i < lead THEN 0 ELSE 1 + (i % 3)

Frame(n, s1, s2, z, lead) ==
    LET close == [p \in 1..n |-> ClosePrice(p - 1, s1, s2, z)]
        open  == [p \in 1..n |-> IF p = 1 THEN close[1] ELSE close[p - 1]]
    IN  [Open   |-> open,
         High   |-> [p \in 1..n |-> Max(open[p], close[p]) + 1],
         Low    |-> [p \in 1..n |-> Min(open[p], close[p]) - 1],
         Close  |-> close,
         Volume |-> [p \in 1..n |-> TradeVolume(p - 1, lead)]]

OHLCV == {"Open", "High", "Low", "Close", "Volume"}

\* the frames the dashboard behaviours fetch
DashFrames == { Frame(n, 1, 1, 3, 2) : n \in {0, 3, RSI_WINDOW, MaxLen} }

\* the frames the indicator functions are applied to
AllFrames ==
    { Frame(n, s1, s2, z, lead) :
        n \in {0, 3, RSI_WINDOW - 1, RSI_WINDOW, SMA_WINDOW, MaxLen},
        s1 \in {-1, 0, 1}, s2 \in {-1, 0, 1}, z \in {0, 3},
        lead \in {0, 2, MaxLen + 1} }

Rows(data) == Len(data["Close"])

----------------------------------------------------------------------------
(* pandas Series operations, as dashboard.py uses them *)

\* a computed column, held as a sequence of values
Series(f) == f \o <<>>

ToFloat(s) == Series([p \in 1..Len(s) |-> Num(s[p], 1)])

\* Series.diff(): the first element has no predecessor and is NaN
Diff(s) ==
    Series([p \in 1..Len(s) |-> IF p = 1 THEN NaN ELSE Num(s[p] - s[p - 1], 1)])

\* Series.where(cond, 0) with cond = (delta > 0), (delta < 0): the elements
\* where the comparison is False (NaN included) are replaced by 0
WhereGt0(s) == Series([p \in 1..Len(s) |-> IF FGt0(s[p]) THEN s[p] ELSE Num(0, 1)])
WhereLt0(s) == Series([p \in 1..Len(s) |-> IF FLt0(s[p]) THEN s[p] ELSE Num(0, 1)])

\* the unary minus of the loss left out
NegSeries_missing(s) == s

NegSeries(s) == Series([p \in 1..Len(s) |-> FNeg(s[p])])

\* Series.rolling(window=w).mean() of a series of integers and NaNs, by the
\* sliding add/remove sums; min_periods defaults to the window, so a value
\* is defined once the window holds w observations
RECURSIVE RollFrom(_, _, _, _, _, _)
RollFrom(s, w, p, sum, nobs, acc) ==
    IF p > Len(s) THEN acc
    ELSE LET old == IF p > w THEN s[p - w] ELSE NaN
             sum2 == sum + (IF IsNaN(s[p]) THEN 0 ELSE s[p].n)
                         - (IF IsNaN(old) THEN 0 ELSE old.n)
             nobs2 == nobs + (IF IsNaN(s[p]) THEN 0 ELSE 1)
                           - (IF IsNaN(old) THEN 0 ELSE 1)
         IN  RollFrom(s, w, p + 1, sum2, nobs2,
                      Append(acc, IF nobs2 >= w THEN Num(sum2, nobs2) ELSE NaN))

\* a window one row short
RollingMean_short(s, w) == RollFrom(s, w - 1, 1, 0, 0, <<>>)

RollingMean(s, w) == RollFrom(s, w, 1, 0, 0, <<>>)

\* Series.rolling(window=w).std(): defined where the window is full
RollingStd(s, w) ==
    LET n == Len(s)
        obs(p) == IF IsNaN(s[p]) THEN 0 ELSE 1
        nobs[p \in 0..n] ==
            IF p = 0 THEN 0
            ELSE nobs[p - 1] + obs(p) - (IF p > w THEN obs(p - w) ELSE 0)
    IN  Series([p \in 1..n |-> IF nobs[p] >= w THEN Finite ELSE NaN])

\* Series.ewm(span=span).mean(): defined from the first observation on; the
\* weights, hence the span, decide only the magnitude, which is not tracked
Ewm(s, span) ==
    LET n == Len(s)
        seen[p \in 0..n] == IF p = 0 THEN FALSE ELSE seen[p - 1] \/ ~IsNaN(s[p])
    IN  Series([p \in 1..n |-> IF seen[p] THEN Finite ELSE NaN])

CumSum(s) ==
    LET c[p \in 0..Len(s)] == IF p = 0 THEN 0 ELSE c[p - 1] + s[p]
    IN  Series([p \in 1..Len(s) |-> c[p]])

\* the last k defined rows only, as a dropna() before the tail would give
TailItems_dropna(s, k) ==
    LET items == [j \in 1..Len(s) |-> <<j, s[j]>>]
        kept == SelectSeq(items, LAMBDA it : ~IsNaN(it[2]))
        n == Len(kept)
    IN  SubSeq(kept, IF n > k THEN n - k + 1 ELSE 1, n)

\* Series.tail(k): the last k rows, as <<date, value>> pairs
TailItems(s, k) ==
    LET n == Len(s)
        from == IF n > k THEN n - k + 1 ELSE 1
    IN  Series([j \in 1..(n - from + 1) |-> <<from + j - 1, s[from + j - 1]>>])

----------------------------------------------------------------------------
(* The indicators *)

calculate_rsi(data, window) ==
    LET delta == Diff(data["Close"])
        gain  == RollingMean(WhereGt0(delta), window)
        loss  == RollingMean(NegSeries(WhereLt0(delta)), window)
        rs    == Series([p \in 1..Len(delta) |-> FDiv(gain[p], loss[p])])
    IN  Series([p \in 1..Len(delta) |->
                  FSub(Num(100, 1), FDiv(Num(100, 1), FAdd(Num(1, 1), rs[p])))])

calculate_macd(data) ==
    LET exp1 == Ewm(ToFloat(data["Close"]), 12)
        exp2 == Ewm(ToFloat(data["Close"]), 26)
        macd == Series([p \in 1..Rows(data) |-> FSub(exp1[p], exp2[p])])
    IN  [macd |-> macd, signal |-> Ewm(macd, 9)]

sma20(data) == RollingMean(ToFloat(data["Close"]), SMA_WINDOW)

\* the volume of the row, not the cumulative volume, as the divisor
vwap_row_volume(data) ==
    LET pv == Series([p \in 1..Rows(data) |-> data["Close"][p] * data["Volume"][p]])
        cpv == CumSum(pv)
    IN  Series([p \in 1..Rows(data) |-> FDiv(Num(cpv[p], 1), Num(data["Volume"][p], 1))])

vwap(data) ==
    LET pv == Series([p \in 1..Rows(data) |-> data["Close"][p] * data["Volume"][p]])
        cpv == CumSum(pv)
        cv  == CumSum(data["Volume"])
    IN  Series([p \in 1..Rows(data) |-> FDiv(Num(cpv[p], 1), Num(cv[p], 1))])

Trace(name, y) == [name |-> name, y |-> y]

AddColumn(data, name, s) ==
    [c \in DOMAIN data \cup {name} |-> IF c = name THEN s ELSE data[c]]

\* every trace is also stored in the frame under its name, as VWAP is
AddTraces_storing(r, t) ==
    [r EXCEPT !.fig = r.fig \o t,
              !.data = [c \in DOMAIN r.data \cup {t[1].name} |->
                          IF c = t[1].name THEN t[1].y ELSE r.data[c]]]

\* fig.add_trace(...), once per trace of t
AddTraces(r, t) == [r EXCEPT !.fig = r.fig \o t]

\* add_indicator on the run's frame and figure; r.ok turns FALSE when the
\* call raises (data.index[0] of an empty frame)
add_indicator(indicator, r) ==
    LET data == r.data
        n == Rows(data)
        add(t) == AddTraces(r, t)
    IN  CASE indicator = "20-Day SMA" ->
                add(<<Trace("SMA (20)", sma20(data))>>)
          [] indicator = "20-Day EMA" ->
                add(<<Trace("EMA (20)", Ewm(ToFloat(data["Close"]), 20))>>)
          [] indicator = "20-Day Bollinger Bands" ->
                LET sma == sma20(data)
                    std == RollingStd(ToFloat(data["Close"]), SMA_WINDOW)
                    two == Num(2, 1)
                IN  add(<<Trace("BB Upper", Series([p \in 1..n |-> FAdd(sma[p], FMul(two, std[p]))])),
                          Trace("BB Lower", Series([p \in 1..n |-> FSub(sma[p], FMul(two, std[p]))]))>>)
          [] indicator = "VWAP" ->
                LET d2 == AddColumn(data, "VWAP", vwap(data))
                IN  AddTraces([r EXCEPT !.data = d2], <<Trace("VWAP", d2["VWAP"])>>)
          [] indicator = "RSI" ->
                LET rsi == Trace("RSI", calculate_rsi(data, RSI_WINDOW))
                IN  IF n = 0
                    THEN [AddTraces(r, <<rsi>>) EXCEPT !.ok = FALSE]
                    ELSE add(<<rsi,
                               Trace("Overbought", <<Num(70, 1), Num(70, 1)>>),
                               Trace("Oversold", <<Num(30, 1), Num(30, 1)>>)>>)
          [] indicator = "MACD" ->
                LET m == calculate_macd(data)
                IN  add(<<Trace("MACD", m.macd), Trace("Signal", m.signal)>>)

Candlestick(data) ==
    [name |-> "Candlestick", open |-> data["Open"], high |-> data["High"],
     low |-> data["Low"], close |-> data["Close"]]

\* for indicator in indicators: add_indicator(indicator)
RECURSIVE AddIndicators(_, _)
AddIndicators(inds, r) ==
    IF inds = <<>> \/ ~r.ok THEN r
    ELSE AddIndicators(Tail(inds), add_indicator(Head(inds), r))

\* one script run's chart: the candlestick, then the selected indicators
RenderChart(data, inds) ==
    AddIndicators(inds, [data |-> data, fig |-> <<Candlestick(data)>>, ok |-> TRUE])

----------------------------------------------------------------------------
(* The report text.  A text is a sequence of tokens: a line break, a piece  *)
(* of literal text, or one formatted value line; string concatenation is    *)
(* sequence concatenation and "" is the empty sequence.                     *)

NL == [k |-> "nl"]
Text(s) == [k |-> "text", s |-> s]

\* f"{value:.2f}": two decimals, ties to even; NaN and the infinities print
\* as words; h is the value in hundredths
Fmt2(v) ==
    CASE v.k = "nan" -> [s |-> "nan", h |-> 0]
      [] v.k = "inf" -> [s |-> IF v.s > 0 THEN "inf" ELSE "-inf", h |-> 0]
      [] v.k = "float" -> [s |-> "float", h |-> 0]
      [] OTHER ->
            LET q == (100 * v.n) \div v.d
                r == (100 * v.n) % v.d
            IN  [s |-> "fixed",
                 h |-> IF 2 * r > v.d \/ (2 * r = v.d /\ q % 2 = 1) THEN q + 1 ELSE q]

RsiLine(date, value) == [k |-> "rsi", date |-> date, value |-> Fmt2(value)]
MacdLine(date, m, sig) ==
    [k |-> "macd", date |-> date, macd |-> Fmt2(m), signal |-> Fmt2(sig)]

RsiHeader == "Recent RSI values:"
MacdHeader == "Recent MACD values:"

\* rsi_data: the header, then one line per row of rsi.tail(10)
RsiBlock(data) ==
    LET recent_rsi == TailItems(calculate_rsi(data, RSI_WINDOW), TAIL)
        lines[j \in 0..Len(recent_rsi)] ==
            IF j = 0 THEN <<NL, Text(RsiHeader)>>
            ELSE lines[j - 1] \o <<NL, RsiLine(recent_rsi[j][1], recent_rsi[j][2])>>
    IN  lines[Len(recent_rsi)]

\* macd_data: the header, then one line per row of the frame built from
\* macd.tail(10) and signal.tail(10)
MacdBlock(data) ==
    LET m == calculate_macd(data)
        rm == TailItems(m.macd, TAIL)
        rs == TailItems(m.signal, TAIL)
        lines[j \in 0..Len(rm)] ==
            IF j = 0 THEN <<NL, NL, Text(MacdHeader)>>
            ELSE lines[j - 1] \o <<NL, MacdLine(rm[j][1], rm[j][2], rs[j][2])>>
    IN  lines[Len(rm)]

Selected(name, inds) == \E j \in 1..Len(inds) : inds[j] = name

\* the blocks in the order of the selection
TechData_selection_order(data, inds) ==
    LET block(name) ==
            CASE name = "RSI" -> RsiBlock(data)
              [] name = "MACD" -> MacdBlock(data)
              [] OTHER -> <<>>
        text[j \in 0..Len(inds)] ==
            IF j = 0 THEN <<>> ELSE text[j - 1] \o block(inds[j])
    IN  text[Len(inds)]

\* the RSI block is written whatever the selection
TechData_always_rsi(data, inds) ==
    IF Selected("MACD", inds) THEN RsiBlock(data) \o MacdBlock(data) ELSE RsiBlock(data)

\* tech_data of the analysis block
TechData(data, inds) ==
    LET t1 == IF Selected("RSI", inds) THEN RsiBlock(data) ELSE <<>>
    IN  IF Selected("MACD", inds) THEN t1 \o MacdBlock(data) ELSE t1

Preamble ==
    <<Text("You are a Stock Trader specializing in Technical Analysis at a top financial institution."), NL,
      Text("Analyze the stock chart's technical indicators and provide a buy/hold/sell recommendation."), NL,
      Text("Base your recommendation only on the candlestick chart and the displayed technical indicators."), NL,
      Text("First, provide the recommendation, then, provide your detailed reasoning."), NL,
      NL,
      Text("Additional Technical Data:")>>

Messages(tech, image) ==
    <<[role |-> "user", content |-> Preamble \o tech \o <<NL>>, images |-> <<image>>]>>

----------------------------------------------------------------------------
(* The dashboard: every user action reruns the script from the top *)

Loaded == stock_data # <<>>
Held == stock_data[1]

Init ==
    /\ stock_data = <<>>
    /\ indicators = DefaultIndicators
    /\ fig = <<>>
    /\ chart = "none"
    /\ pc = "idle"
    /\ tmpfiles = {}
    /\ tmpfile_path = 0
    /\ tech_data = <<>>
    /\ messages = <<>>
    /\ outcome = "none"

\* lines 38-163 of a run: the chart of the held frame with the selection;
\* VWAP writes its column into the held frame itself
Render(data, inds) ==
    \E r \in {RenderChart(data, inds)} :
        /\ stock_data' = <<r.data>>
        /\ fig' = r.fig
        /\ chart' = IF r.ok THEN "shown" ELSE "fault"
        /\ indicators' = inds

\* a run in which the 'Run AI Analysis' button is not pressed
NoAnalysis ==
    /\ tmpfile_path' = 0
    /\ outcome' = "none"
    /\ UNCHANGED <<pc, tmpfiles, tech_data, messages>>

\* the 'Fetch Data' button: the frame is replaced, then the run goes on to
\* draw the chart
FetchData(frame) ==
    /\ pc = "idle"
    /\ Render(frame, indicators)
    /\ NoAnalysis

\* the multiselect: one indicator is added at the end of the selection
SelectIndicator(name) ==
    /\ pc = "idle"
    /\ Loaded
    /\ ~Selected(name, indicators)
    /\ Len(indicators) < MaxSel
    /\ Render(Held, Append(indicators, name))
    /\ NoAnalysis

\* the multiselect: one indicator is removed from the selection
DeselectIndicator(j) ==
    /\ pc = "idle"
    /\ Loaded
    /\ j \in 1..Len(indicators)
    /\ Render(Held, SubSeq(indicators, 1, j - 1) \o SubSeq(indicators, j + 1, Len(indicators)))
    /\ NoAnalysis

\* NamedTemporaryFile picks a name no existing file has
FreshName(files) == CHOOSE n \in 1..(Cardinality(files) + 1) : n \notin files

\* the 'Run AI Analysis' button: the run draws the chart again, enters the
\* block and NamedTemporaryFile(delete=False) creates the file
RunAnalysis ==
    /\ pc = "idle"
    /\ Loaded
    /\ chart = "shown"
    /\ Cardinality(tmpfiles) < MaxTmp
    /\ Render(Held, indicators)
    /\ tmpfile_path' = FreshName(tmpfiles)
    /\ tmpfiles' = tmpfiles \cup {tmpfile_path'}
    /\ pc' = "created"
    /\ outcome' = "running"
    /\ UNCHANGED <<tech_data, messages>>

Step(from, to) ==
    /\ pc = from
    /\ pc' = to
    /\ UNCHANGED <<stock_data, indicators, fig, chart, tmpfiles,
                   tmpfile_path, outcome>>

\* fig.write_image(tmpfile.name); the with block closes the file
WriteImage == Step("created", "exported") /\ UNCHANGED <<tech_data, messages>>

\* open(tmpfile_path, "rb") ... base64.b64encode
ReadImage == Step("exported", "encoded") /\ UNCHANGED <<tech_data, messages>>

\* tech_data and messages
AssembleReport ==
    /\ Step("encoded", "assembled")
    /\ tech_data' = TechData(Held, indicators)
    /\ messages' = Messages(tech_data', tmpfile_path)

\* ollama.chat(...)
ChatCall == Step("assembled", "responded") /\ UNCHANGED <<tech_data, messages>>

\* st.write(...) twice
Display == Step("responded", "displayed") /\ UNCHANGED <<tech_data, messages>>

\* what os.remove(tmpfile_path) leaves on disk
Removed(files, path) == files \ {path}

\* os.remove(tmpfile_path): the run ends
RemoveTmp ==
    /\ pc = "displayed"
    /\ tmpfiles' = Removed(tmpfiles, tmpfile_path)
    /\ pc' = "idle"
    /\ outcome' = "ok"
    /\ tech_data' = <<>>
    /\ messages' = <<>>
    /\ UNCHANGED <<stock_data, indicators, fig, chart, tmpfile_path>>

FaultPoints == {"created", "exported", "encoded", "assembled", "responded"}

\* the abort runs the cleanup too, as a try/finally would
Aborted_with_cleanup(files, path) == files \ {path}

\* what an aborted run leaves on disk: nothing in the block handles the
\* exception, so nothing is removed
Aborted(files, path) == files

\* the next statement of the block raises (the export, the read, the
\* assembly, the model call or the display): the run aborts there
Fault ==
    /\ pc \in FaultPoints
    /\ tmpfiles' = Aborted(tmpfiles, tmpfile_path)
    /\ pc' = "idle"
    /\ outcome' = "fault"
    /\ tech_data' = <<>>
    /\ messages' = <<>>
    /\ UNCHANGED <<stock_data, indicators, fig, chart, tmpfile_path>>

Next ==
    \/ \E frame \in DashFrames : FetchData(frame)
    \/ \E name \in IndicatorNames : SelectIndicator(name)
    \/ \E j \in 1..MaxSel : DeselectIndicator(j)
    \/ RunAnalysis
    \/ WriteImage
    \/ ReadImage
    \/ AssembleReport
    \/ ChatCall
    \/ Display
    \/ RemoveTmp
    \/ Fault

Spec == Init /\ [][Next]_vars

----------------------------------------------------------------------------
(* The indicator functions on their own: a frame is held and one indicator  *)
(* at a time is drawn from it.                                              *)

InitInd ==
    /\ \E frame \in AllFrames :
          /\ stock_data = <<frame>>
          /\ fig = <<Candlestick(frame)>>
    /\ indicators = <<>>
    /\ chart = "shown"
    /\ pc = "idle"
    /\ tmpfiles = {}
    /\ tmpfile_path = 0
    /\ tech_data = <<>>
    /\ messages = <<>>
    /\ outcome = "none"

ApplyIndicator(name) ==
    /\ Render(Held, <<name>>)
    /\ NoAnalysis

NextInd == \E name \in IndicatorNames : ApplyIndicator(name)

SpecInd == InitInd /\ [][NextInd]_vars

----------------------------------------------------------------------------
(* Vocabulary of the properties *)

\* the analysis holds an assembled report
Reporting == pc \in {"assembled", "responded", "displayed"}

\* position of the first occurrence of a header in a text, 0 when absent
HeaderPos(text, header) ==
    IF \E j \in 1..Len(text) : text[j] = Text(header)
    THEN CHOOSE j \in 1..Len(text) :
            /\ text[j] = Text(header)
            /\ \A i \in 1..(j - 1) : text[i] # Text(header)
    ELSE 0

\* the value lines of kind `kind` in the block under a header: those after
\* the header and before the next piece of literal text
BlockLines(text, header, kind) ==
    LET h == HeaderPos(text, header)
    IN  { j \in (h + 1)..Len(text) :
            /\ h > 0
            /\ text[j].k = kind
            /\ \A i \in (h + 1)..j : text[i].k # "text" }

Defined(s) == { q \in 1..Len(s) : ~IsNaN(s[q]) }

PosIn(name, inds) == CHOOSE j \in 1..Len(inds) : inds[j] = name

RECURSIVE SumRange(_, _, _)
SumRange(s, a, b) == IF a > b THEN 0 ELSE s[a] + SumRange(s, a + 1, b)

\* the traces of the figure with a given name
Traces(name) == { j \in 1..Len(fig) : fig[j].name = name }

\* per-row gains and losses of a Close column: the rise or the fall from the
\* previous row, the first row having none
Gains(close) ==
    [q \in 1..Len(close) |-> IF q = 1 THEN 0 ELSE Max(0, close[q] - close[q - 1])]
Losses(close) ==
    [q \in 1..Len(close) |-> IF q = 1 THEN 0 ELSE Max(0, close[q - 1] - close[q])]
WindowGain(close, p) == SumRange(Gains(close), p - RSI_WINDOW + 1, p)
WindowLoss(close, p) == SumRange(Losses(close), p - RSI_WINDOW + 1, p)

Hundred == Num(100, 1)
Zero == Num(0, 1)

----------------------------------------------------------------------------
(* C1 *)

\* C1: a 'Run AI Analysis' run that ends without a fault leaves no temporary
\* file of its own behind; a run that aborts at the export, the read, the
\* assembly, the model call or the display leaves its file on disk.
C1_CleanupOnSuccessPathOnly ==
    /\ (pc = "idle" /\ outcome = "ok") => tmpfile_path \notin tmpfiles
    /\ (pc = "idle" /\ outcome = "fault") => tmpfile_path \in tmpfiles

\* a run has just succeeded and removed its file, while the file orphaned
\* by an earlier aborted run is still there
C1_Witness ==
    /\ pc = "idle"
    /\ outcome = "ok"
    /\ tmpfile_path \notin tmpfiles
    /\ tmpfiles # {}

----------------------------------------------------------------------------
(* C2 *)

Ohlcv(sd) == [j \in 1..Len(sd) |-> [c \in OHLCV |-> sd[j][c]]]

FetchStep ==
    \E frame \in DashFrames :
        /\ Ohlcv(stock_data') = Ohlcv(<<frame>>)
        /\ FetchData(frame)

C2_Step ==
    /\ Ohlcv(stock_data') # Ohlcv(stock_data) => FetchStep
    /\ (stock_data' # stock_data /\ ~FetchStep) =>
          /\ Selected("VWAP", indicators')
          /\ DOMAIN stock_data'[1] = DOMAIN stock_data[1] \cup {"VWAP"}
          /\ \A c \in DOMAIN stock_data[1] \ {"VWAP"} :
                stock_data'[1][c] = stock_data[1][c]
    /\ (stock_data' # <<>> /\ chart' = "shown" /\ Selected("VWAP", indicators')) =>
          "VWAP" \in DOMAIN stock_data'[1]

\* C2: only a Fetch Data run replaces the held Open/High/Low/Close/Volume
\* values; any other run changes the held frame only when VWAP is selected,
\* and then only in its VWAP column, which a chart drawn with VWAP selected
\* always leaves in the frame.
C2_OnlyFetchReplacesSeries == [][C2_Step]_vars

\* an analysis has run on a frame that carries the VWAP column written by
\* an earlier rendering, with other indicators selected now
C2_Witness ==
    /\ outcome = "ok"
    /\ Loaded
    /\ "VWAP" \in DOMAIN Held
    /\ ~Selected("VWAP", indicators)
    /\ Len(indicators) > 0
    /\ Rows(Held) > 0

----------------------------------------------------------------------------
(* C3 *)

BothSelected == Selected("RSI", indicators) /\ Selected("MACD", indicators)

RsiLines == Cardinality(BlockLines(tech_data, RsiHeader, "rsi"))
MacdLines == Cardinality(BlockLines(tech_data, MacdHeader, "macd"))

\* C3 as stated: with RSI and MACD selected the report has both blocks, and
\* each block has 10 lines when its series has at least 10 defined points
\* and otherwise as many lines as the series has defined points.
C3_LinesCountDefinedPoints ==
    (Reporting /\ BothSelected) =>
        /\ HeaderPos(tech_data, RsiHeader) > 0
        /\ HeaderPos(tech_data, MacdHeader) > 0
        /\ RsiLines = Min(TAIL, Cardinality(Defined(calculate_rsi(Held, RSI_WINDOW))))
        /\ MacdLines = Min(TAIL, Cardinality(Defined(calculate_macd(Held).macd)))

\* C3 amended: with RSI and MACD selected the report has both blocks, and
\* each block has one line per row of the last 10 rows of the frame (all
\* rows when there are fewer than 10), a missing value being printed as
\* "nan" rather than left out.
C3_LinesCountRows ==
    (Reporting /\ BothSelected) =>
        /\ HeaderPos(tech_data, RsiHeader) > 0
        /\ HeaderPos(tech_data, MacdHeader) > 0
        /\ RsiLines = Min(TAIL, Rows(Held))
        /\ MacdLines = Min(TAIL, Rows(Held))
        /\ \A j \in BlockLines(tech_data, RsiHeader, "rsi") :
              (tech_data[j].value.s = "nan") <=>
                  IsNaN(calculate_rsi(Held, RSI_WINDOW)[tech_data[j].date])

\* a report with both blocks on a frame of at least 10 rows whose RSI has
\* fewer than 10 defined points: the RSI block holds "nan" lines
C3_Witness ==
    /\ Reporting
    /\ BothSelected
    /\ Rows(Held) >= TAIL
    /\ Cardinality(Defined(calculate_rsi(Held, RSI_WINDOW))) \in 1..(TAIL - 1)
    /\ RsiLines = TAIL
    /\ \E j \in BlockLines(tech_data, RsiHeader, "rsi") : tech_data[j].value.s = "nan"
    /\ \E j \in BlockLines(tech_data, RsiHeader, "rsi") : tech_data[j].value.s = "fixed"

----------------------------------------------------------------------------
(* C4 *)

\* the names of the traces an indicator adds to the chart
TraceNames(name) ==
    CASE name = "20-Day SMA" -> {"SMA (20)"}
      [] name = "20-Day EMA" -> {"EMA (20)"}
      [] name = "20-Day Bollinger Bands" -> {"BB Upper", "BB Lower"}
      [] name = "VWAP" -> {"VWAP"}
      [] name = "RSI" -> {"RSI", "Overbought", "Oversold"}
      [] name = "MACD" -> {"MACD", "Signal"}

\* the traces of the chart stand in the order of the selection
TracesFollowSelection ==
    chart = "shown" =>
        \A a \in 1..Len(indicators), b \in 1..Len(indicators) :
            a < b =>
                \A i \in 1..Len(fig), j \in 1..Len(fig) :
                    (fig[i].name \in TraceNames(indicators[a])
                        /\ fig[j].name \in TraceNames(indicators[b])) => i < j

\* C4 as stated: the order of the selection is the order of the traces and
\* of the blocks of the report: MACD selected before RSI puts the MACD
\* block first, RSI before MACD the RSI block.
C4_ReportFollowsSelection ==
    /\ TracesFollowSelection
    /\ (Reporting /\ BothSelected) =>
          ((HeaderPos(tech_data, MacdHeader) < HeaderPos(tech_data, RsiHeader))
              <=> (PosIn("MACD", indicators) < PosIn("RSI", indicators)))

\* C4 amended: the order of the selection is the order of the traces of the
\* chart; in the report the RSI block precedes the MACD block whatever the
\* order of the selection.
C4_ReportOrderFixed ==
    /\ TracesFollowSelection
    /\ (Reporting /\ BothSelected) =>
          /\ HeaderPos(tech_data, RsiHeader) > 0
          /\ HeaderPos(tech_data, RsiHeader) < HeaderPos(tech_data, MacdHeader)

\* a report assembled for MACD selected before RSI: the MACD traces come
\* first in the chart, the RSI block first in the report
C4_Witness ==
    /\ Reporting
    /\ indicators = <<"MACD", "RSI">>
    /\ fig[2].name = "MACD"
    /\ fig[4].name = "RSI"
    /\ HeaderPos(tech_data, RsiHeader) = 2

----------------------------------------------------------------------------
(* C5 *)

\* C5: with neither RSI nor MACD selected the technical-data block is the
\* empty string: the prompt ends with the 'Additional Technical Data:'
\* label and holds no indicator line.
C5_EmptyTechData ==
    (Reporting /\ ~Selected("RSI", indicators) /\ ~Selected("MACD", indicators)) =>
        /\ tech_data = <<>>
        /\ messages[1].content = Preamble \o <<NL>>
        /\ \A j \in 1..Len(messages[1].content) :
              messages[1].content[j].k \in {"nl", "text"}

\* a report assembled with two indicators selected, neither RSI nor MACD
C5_Witness ==
    /\ Reporting
    /\ Len(indicators) = 2
    /\ ~Selected("RSI", indicators)
    /\ ~Selected("MACD", indicators)
    /\ Len(messages) = 1

----------------------------------------------------------------------------
(* C6 *)

\* the rows at which the rolling means of the RSI are defined
RsiRows == RSI_WINDOW..Rows(Held)

\* C6 as stated: wherever the rolling average loss is zero the RSI is 100,
\* also where the rolling average gain is zero too.
C6_ZeroLossIsHundred ==
    \A t \in Traces("RSI") : \A p \in RsiRows :
        WindowLoss(Held["Close"], p) = 0 => FEq(fig[t].y[p], Hundred)

\* C6 amended: where the rolling average loss is zero and the rolling
\* average gain is positive the RSI is 100; where both are zero (a window
\* of constant Close) the RSI is undefined.
C6_ZeroLossPositiveGainIsHundred ==
    \A t \in Traces("RSI") : \A p \in RsiRows :
        WindowLoss(Held["Close"], p) = 0 =>
            IF WindowGain(Held["Close"], p) > 0
            THEN FEq(fig[t].y[p], Hundred)
            ELSE IsNaN(fig[t].y[p])

\* an RSI drawn from a series that rises and then stays constant: a window
\* with gains and no loss, and a later window with neither
C6_Witness ==
    \E t \in Traces("RSI") : \E p, q \in RsiRows :
        /\ WindowLoss(Held["Close"], p) = 0
        /\ WindowGain(Held["Close"], p) > 0
        /\ FEq(fig[t].y[p], Hundred)
        /\ WindowLoss(Held["Close"], q) = 0
        /\ WindowGain(Held["Close"], q) = 0
        /\ IsNaN(fig[t].y[q])

----------------------------------------------------------------------------
(* C7 *)

\* C7: every defined RSI value lies in [0, 100].
C7_RsiBounded ==
    \A t \in Traces("RSI") : \A p \in 1..Len(fig[t].y) :
        \/ IsNaN(fig[t].y[p])
        \/ (FLe(Zero, fig[t].y[p]) /\ FLe(fig[t].y[p], Hundred))

\* an RSI with a value strictly inside the interval and a value at 0
C7_Witness ==
    \E t \in Traces("RSI") : \E p, q \in 1..Len(fig[t].y) :
        /\ IsNum(fig[t].y[p])
        /\ ~FLe(fig[t].y[p], Zero)
        /\ ~FLe(Hundred, fig[t].y[p])
        /\ FEq(fig[t].y[q], Zero)

----------------------------------------------------------------------------
(* C8 *)

\* C8: the SMA has the length of the input, is undefined in the first 19
\* rows and from row 20 on is the mean of the 20 Close values up to and
\* including the row.
C8_SmaIsWindowMean ==
    \A t \in Traces("SMA (20)") :
        /\ Len(fig[t].y) = Rows(Held)
        /\ \A p \in 1..Rows(Held) :
              IF p < SMA_WINDOW
              THEN IsNaN(fig[t].y[p])
              ELSE FEq(fig[t].y[p],
                       Num(SumRange(Held["Close"], p - SMA_WINDOW + 1, p), SMA_WINDOW))

\* an SMA over more than 20 rows of a changing Close: the window has moved
C8_Witness ==
    \E t \in Traces("SMA (20)") :
        /\ Rows(Held) > SMA_WINDOW
        /\ IsNaN(fig[t].y[SMA_WINDOW - 1])
        /\ IsNum(fig[t].y[SMA_WINDOW])
        /\ ~FEq(fig[t].y[SMA_WINDOW], fig[t].y[SMA_WINDOW + 1])
        /\ Held["Close"][1] # Held["Close"][SMA_WINDOW + 1]

----------------------------------------------------------------------------
(* C9 *)

MinClose(close, p) == CHOOSE m \in {close[q] : q \in 1..p} : \A q \in 1..p : m <= close[q]
MaxClose(close, p) == CHOOSE m \in {close[q] : q \in 1..p} : \A q \in 1..p : m >= close[q]

\* C9: with non-negative volumes, wherever the cumulative volume is not
\* zero the VWAP is the cumulative Close*Volume over the cumulative Volume
\* and lies between the least and the greatest Close so far; it is
\* undefined only where the cumulative volume is zero.
C9_VwapBounded ==
    \A t \in Traces("VWAP") : \A p \in 1..Rows(Held) :
        LET pv == [q \in 1..p |-> Held["Close"][q] * Held["Volume"][q]]
            cv == SumRange(Held["Volume"], 1, p)
        IN  /\ cv # 0 =>
                  /\ FEq(fig[t].y[p], Num(SumRange(pv, 1, p), cv))
                  /\ FLe(Num(MinClose(Held["Close"], p), 1), fig[t].y[p])
                  /\ FLe(fig[t].y[p], Num(MaxClose(Held["Close"], p), 1))
            /\ IsNaN(fig[t].y[p]) => cv = 0

\* a VWAP over rows without trade followed by rows with trade at changing
\* prices: undefined first, then strictly between the least and greatest Close
C9_Witness ==
    \E t \in Traces("VWAP") : \E p \in 1..Rows(Held) :
        /\ \A q \in 1..Rows(Held) : Held["Volume"][q] >= 0
        /\ IsNaN(fig[t].y[1])
        /\ IsNum(fig[t].y[p])
        /\ ~FLe(fig[t].y[p], Num(MinClose(Held["Close"], p), 1))
        /\ ~FLe(Num(MaxClose(Held["Close"], p), 1), fig[t].y[p])

----------------------------------------------------------------------------
(* C10 *)

\* C10 as stated: the RSI is undefined in each of the first 14 rows.
C10_FirstWindowRowsUndefined ==
    \A t \in Traces("RSI") : \A p \in 1..Len(fig[t].y) :
        p <= RSI_WINDOW => IsNaN(fig[t].y[p])

====
